---------------------------- MODULE Spec2Model ----------------------------
(***************************************************************************)
(* A model of ast-calc: the Pratt parser (src/src/parse.rs expr_prec), the *)
(* tree evaluator (Expr::eval), the hierarchy printer                      *)
(* (Expr::print_hierarchy) and the grid layout (Display for Ast, in        *)
(* src/src/ast.rs), run by the read-eval-print loop of src/src/main.rs.    *)
(* A line of input is one of the words that end the program, or a token    *)
(* stream as the logos lexer of src/src/lex.rs hands it to the parser: a   *)
(* finite sequence of Ok(token) items and lexical errors.  Number literals *)
(* are naturals.                                                           *)
(***************************************************************************)
EXTENDS Integers, Sequences, FiniteSets, TLC

VARIABLES
    args,             \* the command line: ast_mode and ast_view
    overflow_checks,  \* build profile: are integer overflow checks compiled in
    pc,               \* where main stands
    stdin_line,       \* the line l of stdin the loop of main is working on
    ast,              \* outcome of Ast::string_to_ast for this line
    value,            \* outcome of ast.eval() for this line
    out,              \* the lines print_hierarchy wrote to stdout for this line
    fmt               \* the state of Display::fmt (the grid view) for this line

vars == <<args, overflow_checks, pc, stdin_line, ast, value, out, fmt>>

(***************************************************************************)
(* Bounds of the model.                                                    *)
(***************************************************************************)
MaxLen == 3        \* longest token stream of the unrestricted family
MaxNum == 1        \* number literals of the unrestricted family are 0..MaxNum
MaxOps == 4        \* most infix operators in an operator chain
MaxFactN == 22     \* largest literal n in the inputs "n !"
IntLimit == 32767  \* integer-valued doubles are tracked exactly up to this size

(***************************************************************************)
(* Tokens (lex.rs).  A stream item is Ok(token) or a lexical error.        *)
(***************************************************************************)
Tok(name) == [t |-> name, n |-> 0]
NumberTok(n) == [t |-> "Number", n |-> n]
LexErr == [t |-> "LexErr", n |-> 0]

TokenNames == {"Plus", "Minus", "Multiply", "Divide", "Power", "Factorial",
               "Sin", "Cos", "Tan", "Exp", "Log", "LParens", "RParens"}

(***************************************************************************)
(* Expr (parse.rs): the tree.                                              *)
(***************************************************************************)
BinaryOp(op, e1, e2) == [kind |-> "BinaryOp", op |-> op, e1 |-> e1, e2 |-> e2]
UnaryOp(op, e) == [kind |-> "UnaryOp", op |-> op, e |-> e]
Number(n) == [kind |-> "Number", n |-> n]
Eof == [kind |-> "Eof"]

(***************************************************************************)
(* Outcomes of a call: a returned value, or a panic (the process aborts:   *)
(* main.rs catches nothing).                                               *)
(***************************************************************************)
Parsed(e, p) == [status |-> "ok", expr |-> e, pos |-> p]
Panic(msg) == [status |-> "panic", panic |-> msg]

(***************************************************************************)
(* From<Token> for BinOp and for UnOp; the catch-all arm panics.           *)
(***************************************************************************)
BinOpFrom(value_) ==
    IF value_.t \in {"Plus", "Minus", "Multiply", "Divide", "Power"}
    THEN value_.t
    ELSE "panic"

UnOpFrom(value_) ==
    CASE value_.t = "Minus" -> "Negative"
      [] value_.t \in {"Sin", "Cos", "Tan", "Exp", "Log", "Factorial"} -> value_.t
      [] OTHER -> "panic"

(***************************************************************************)
(* Binding powers.  None is [some |-> FALSE]; prefix_prec panics instead.  *)
(***************************************************************************)
infix_prec(op) ==
    CASE op.t \in {"Plus", "Minus"} -> [some |-> TRUE, l |-> 1, r |-> 2]
      [] op.t \in {"Multiply", "Divide"} -> [some |-> TRUE, l |-> 3, r |-> 4]
      [] op.t = "Power" -> [some |-> TRUE, l |-> 5, r |-> 6]
      [] OTHER -> [some |-> FALSE, l |-> 0, r |-> 0]

\* a version whose prefix operators bind like * and /
prefix_prec_loose(op) ==
    IF op.t \in {"Minus", "Sin", "Cos", "Tan", "Exp", "Log"}
    THEN [panic |-> FALSE, r |-> 4]
    ELSE [panic |-> TRUE, r |-> 0]

prefix_prec(op) ==
    IF op.t \in {"Minus", "Sin", "Cos", "Tan", "Exp", "Log"}
    THEN [panic |-> FALSE, r |-> 8]
    ELSE [panic |-> TRUE, r |-> 0]

postfix_prec(op) ==
    IF op.t = "Factorial"
    THEN [some |-> TRUE, l |-> 9]
    ELSE [some |-> FALSE, l |-> 0]

(***************************************************************************)
(* expr_prec(lexer, min_prec).  The lexer is the stream ts and the index   *)
(* pos of the item next() yields; a result carries the index reached.      *)
(* expr_loop is the `loop` of expr_prec.                                   *)
(***************************************************************************)
RECURSIVE expr_prec(_, _, _)
RECURSIVE expr_loop(_, _, _, _)

expr_loop(ts, lhs, pos, min_prec) ==
    IF pos > Len(ts)
    THEN Parsed(lhs, pos)                                  \* peek() = None
    ELSE LET op == ts[pos]
             post == postfix_prec(op)
             inf == infix_prec(op)
         IN  IF op.t = "LexErr"
             THEN Panic("Could not parse token with error")
             ELSE IF post.some
             THEN IF post.l < min_prec
                  THEN Parsed(lhs, pos)
                  ELSE IF UnOpFrom(op) = "panic"
                       THEN Panic("Cannot convert to unary operator")
                       ELSE expr_loop(ts, UnaryOp(UnOpFrom(op), lhs), pos + 1, min_prec)
             ELSE IF inf.some
             THEN IF inf.l < min_prec
                  THEN Parsed(lhs, pos)
                  ELSE LET rhs == expr_prec(ts, pos + 1, inf.r)
                       IN  IF rhs.status # "ok"
                           THEN rhs
                           ELSE IF BinOpFrom(op) = "panic"
                           THEN Panic("Cannot convert to binary operator")
                           ELSE expr_loop(ts, BinaryOp(BinOpFrom(op), lhs, rhs.expr),
                                          rhs.pos, min_prec)
             ELSE Parsed(lhs, pos)

expr_prec(ts, pos, min_prec) ==
    IF pos > Len(ts)
    THEN Parsed(Eof, pos)                                  \* next() = None
    ELSE LET lhs_read == ts[pos]
             first ==
                 CASE lhs_read.t = "Number" -> Parsed(Number(lhs_read.n), pos + 1)
                   [] lhs_read.t = "LParens" ->
                        LET lhs == expr_prec(ts, pos + 1, 0)
                        IN  IF lhs.status # "ok"
                            THEN lhs
                            ELSE IF lhs.pos <= Len(ts) /\ ts[lhs.pos] = Tok("RParens")
                            THEN Parsed(lhs.expr, lhs.pos + 1)
                            ELSE Panic("assertion failed: lexer.next() == Some(Ok(RParens))")
                   [] OTHER ->
                        IF prefix_prec(lhs_read).panic
                        THEN Panic("Bad op for prefix")
                        ELSE LET rhs == expr_prec(ts, pos + 1, prefix_prec(lhs_read).r)
                             IN  IF rhs.status # "ok"
                                 THEN rhs
                                 ELSE IF UnOpFrom(lhs_read) = "panic"
                                 THEN Panic("Cannot convert to unary operator")
                                 ELSE Parsed(UnaryOp(UnOpFrom(lhs_read), rhs.expr), rhs.pos)
         IN  IF lhs_read.t = "LexErr"
             THEN Panic("Could not read token")
             ELSE IF first.status # "ok"
             THEN first
             ELSE expr_loop(ts, first.expr, first.pos, min_prec)

(***************************************************************************)
(* Ast::string_to_ast: the parse of the whole stream at binding power 0.   *)
(***************************************************************************)
\* a version that rejects a stream the parse did not consume
string_to_ast_strict(ts) ==
    LET r == expr_prec(ts, 1, 0)
    IN  IF r.status = "ok" /\ r.pos <= Len(ts) THEN Panic("trailing input") ELSE r

string_to_ast(ts) == expr_prec(ts, 1, 0)

(***************************************************************************)
(* Expr::eval.  The value of a double is kept as far as the evaluation     *)
(* needs it to decide its outcome:                                         *)
(*   IntV(v)     the integer v, of size at most IntLimit (0.0 and -0.0 are *)
(*               both 0, as == has it);                                    *)
(*   F64V(l)     the integer a factorial returned beyond that size (base   *)
(*               2^16 limbs, least significant first);                     *)
(*   Big(neg)    another finite integer-valued double of size beyond       *)
(*               IntLimit, of which the sign is known;                     *)
(*   Frac        a finite double that is not an integer;                   *)
(*   NonFinite   an infinity or NaN;                                       *)
(*   Double      a double of which nothing is known.                       *)
(* Only the factorial of a Double has an outcome the model cannot tell (a  *)
(* value or a panic): that evaluation is Unmodelled.                       *)
(***************************************************************************)
IntV(v) == [status |-> "ok", k |-> "int", v |-> v]
F64V(limbs) == [status |-> "ok", k |-> "f64", limbs |-> limbs]
Big(neg) == [status |-> "ok", k |-> "big", neg |-> neg]
Frac == [status |-> "ok", k |-> "frac"]
NonFinite == [status |-> "ok", k |-> "nonfinite"]
Double == [status |-> "ok", k |-> "double"]
Unmodelled == [status |-> "unmodelled"]

Abs(i) == IF i < 0 THEN 0 - i ELSE i
Tracked(i) == IF Abs(i) <= IntLimit THEN IntV(i) ELSE Big(i < 0)

IsZero(x) == x.k = "int" /\ x.v = 0
IsOne(x) == x.k = "int" /\ x.v = 1
\* finite and not zero
FiniteNonZero(x) == x.k \in {"f64", "big", "frac"} \/ (x.k = "int" /\ x.v # 0)

Limb == 256 * 256

\* a * k in u64 for a small k: the wrapped product and whether it overflowed
u64_mul(a, k) ==
    LET p1 == a[1] * k
        p2 == a[2] * k + (p1 \div Limb)
        p3 == a[3] * k + (p2 \div Limb)
        p4 == a[4] * k + (p3 \div Limb)
    IN  [limbs |-> <<p1 % Limb, p2 % Limb, p3 % Limb, p4 % Limb>>,
         overflow |-> (p4 \div Limb) # 0]

\* (i..=n).product::<u64>() continued from acc: the fold a * b, whose overflow
\* check is inherited from the build of this crate
\* A product that has wrapped to 0 stays 0 and overflows no more: the rest of
\* the range is not walked.
RECURSIVE product_u64(_, _, _, _)
product_u64(acc, i, n, checks) ==
    IF i > n \/ acc = <<0, 0, 0, 0>>
    THEN [status |-> "ok", limbs |-> acc]
    ELSE LET m == u64_mul(acc, i)
         IN  IF m.overflow /\ checks
             THEN Panic("attempt to multiply with overflow")
             ELSE product_u64(m.limbs, i + 1, n, checks)

RECURSIVE BitLen(_)
BitLen(x) == IF x = 0 THEN 0 ELSE 1 + BitLen(x \div 2)

RECURSIVE Pow2(_)
Pow2(d) == IF d = 0 THEN 1 ELSE 2 * Pow2(d - 1)

\* u64 as f64: round to nearest, ties to even, on a 53-bit significand.  The
\* result is an integer of at most 2^64: five limbs.
u64_as_f64(a) ==
    LET len == IF a[4] # 0 THEN 48 + BitLen(a[4])
               ELSE IF a[3] # 0 THEN 32 + BitLen(a[3])
               ELSE IF a[2] # 0 THEN 16 + BitLen(a[2])
               ELSE BitLen(a[1])
    IN  IF len <= 53
        THEN <<a[1], a[2], a[3], a[4], 0>>
        ELSE LET d == len - 53
                 unit == Pow2(d)
                 r == a[1] % unit
                 half == unit \div 2
                 up == r > half \/ (r = half /\ (a[1] \div unit) % 2 = 1)
                 s1 == (a[1] - r) + (IF up THEN unit ELSE 0)
                 s2 == a[2] + (s1 \div Limb)
                 s3 == a[3] + (s2 \div Limb)
                 s4 == a[4] + (s3 \div Limb)
             IN  <<s1 % Limb, s2 % Limb, s3 % Limb, s4 % Limb, s4 \div Limb>>

\* the double as a tracked value
f64_value(l) ==
    IF l[2] = 0 /\ l[3] = 0 /\ l[4] = 0 /\ l[5] = 0 /\ l[1] <= IntLimit
    THEN IntV(l[1])
    ELSE F64V(l)

\* val as u64 as far as the product needs it: the cast saturates (a negative
\* double gives 0), and from 66 on every range gives the same outcome (21! is
\* beyond u64 and 66! is a multiple of 2^64), so a double beyond IntLimit is
\* taken at IntLimit + 1
as_u64(val) ==
    CASE val.k = "int" -> IF val.v < 0 THEN 0 ELSE val.v
      [] val.k = "f64" -> IntLimit + 1
      [] val.k = "big" -> IF val.neg THEN 0 ELSE IntLimit + 1

\* UnOp::Factorial on the evaluated operand
eval_factorial(val, checks) ==
    IF val.status # "ok"
    THEN val
    ELSE IF val.k \in {"frac", "nonfinite"}            \* val.fract() != 0.0
    THEN Panic("Cannot evaluate factorial on decimal.")
    ELSE IF val.k = "double"
    THEN Unmodelled
    ELSE LET int_val == as_u64(val)
             p == product_u64(<<1, 0, 0, 0>>, 1, int_val, checks)
         IN  IF p.status # "ok" THEN p ELSE f64_value(u64_as_f64(p.limbs))

\* -x
neg_f64(x) ==
    CASE x.k = "int" -> IntV(0 - x.v)
      [] x.k = "f64" -> Big(TRUE)
      [] x.k = "big" -> Big(~x.neg)
      [] OTHER -> x

\* x + y.  An infinity or NaN on either side gives an infinity or NaN.
add_f64(x, y) ==
    IF x.k = "int" /\ y.k = "int" THEN Tracked(x.v + y.v)
    ELSE IF x.k = "nonfinite" \/ y.k = "nonfinite" THEN NonFinite
    ELSE IF IsZero(x) THEN y
    ELSE IF IsZero(y) THEN x
    ELSE Double

\* x * y
mul_f64(x, y) ==
    IF x.k = "int" /\ y.k = "int" THEN Tracked(x.v * y.v)
    ELSE IF x.k = "nonfinite" \/ y.k = "nonfinite" THEN NonFinite
    ELSE IF IsOne(x) THEN y
    ELSE IF IsOne(y) THEN x
    ELSE IF (IsZero(x) /\ FiniteNonZero(y)) \/ (IsZero(y) /\ FiniteNonZero(x)) THEN IntV(0)
    ELSE Double

\* x / y.  A quotient of two integers of size at most IntLimit that is not an
\* integer is not rounded to one.
div_f64(x, y) ==
    IF IsZero(y) \/ x.k = "nonfinite" THEN NonFinite
    ELSE IF x.k = "int" /\ y.k = "int"
    THEN IF Abs(x.v) % Abs(y.v) = 0
         THEN IntV((IF (x.v < 0) = (y.v < 0) THEN 1 ELSE -1) * (Abs(x.v) \div Abs(y.v)))
         ELSE Frac
    ELSE IF IsOne(y) THEN x
    ELSE IF IsZero(x) /\ FiniteNonZero(y) THEN IntV(0)
    ELSE Double

\* a^b for b >= 0 while it is at most IntLimit, else IntLimit + 1
RECURSIVE pow_capped(_, _)
pow_capped(a, b) ==
    IF b = 0 THEN 1
    ELSE LET rest == pow_capped(a, b - 1)
         IN  IF rest * a > IntLimit THEN IntLimit + 1 ELSE rest * a

\* powf on two integers a and b with |a| >= 2: a^b is an integer for b > 0 and
\* lies strictly between 0 and 1 in size for b < 0; it is finite below 2^1024
\* and not zero above 2^-1074
powf_int(a, b) ==
    LET bits == BitLen(Abs(a))                     \* 2^(bits-1) <= |a| < 2^bits
        neg == a < 0 /\ Abs(b) % 2 = 1
        small == IF b <= BitLen(IntLimit) THEN pow_capped(Abs(a), b) ELSE IntLimit + 1
    IN  IF b > 0
        THEN IF small <= IntLimit THEN IntV(IF neg THEN 0 - small ELSE small)
             ELSE IF b * bits <= 1023 THEN Big(neg)
             ELSE IF b * (bits - 1) >= 1024 THEN NonFinite
             ELSE Double
        ELSE IF Abs(b) * bits <= 1000 THEN Frac ELSE Double

\* x.powf(y): powf(x, 0) and powf(1, y) are 1 whatever the other operand is
powf(x, y) ==
    IF IsZero(y) \/ IsOne(x) THEN IntV(1)
    ELSE IF IsOne(y) THEN x
    ELSE IF x.k = "int" /\ y.k = "int"
    THEN CASE x.v = 0 -> IF y.v > 0 THEN IntV(0) ELSE NonFinite
           [] x.v = -1 -> IntV(IF y.v % 2 = 0 THEN 1 ELSE -1)
           [] OTHER -> powf_int(x.v, y.v)
    ELSE Double

eval_binary(op, x, y) ==
    CASE op = "Plus" -> add_f64(x, y)
      [] op = "Minus" -> add_f64(x, neg_f64(y))             \* x - y is x + (-y)
      [] op = "Multiply" -> mul_f64(x, y)
      [] op = "Divide" -> div_f64(x, y)
      [] op = "Power" -> powf(x, y)

\* sin, cos, tan: no integer but 0 has an integer-valued sine, cosine or tangent
trig(x, at_zero) ==
    CASE x.k = "int" -> IF x.v = 0 THEN IntV(at_zero) ELSE Frac
      [] x.k = "nonfinite" -> NonFinite
      [] OTHER -> Double

\* exp: e^n is 0 below n = -745, a fraction up to n = 35, an integer-valued double
\* from n = 36 on and infinite from n = 710 on
exp_f64(x) ==
    CASE x.k = "int" ->
            IF x.v = 0 THEN IntV(1)
            ELSE IF x.v < -745 THEN IntV(0)
            ELSE IF x.v < 36 THEN Frac
            ELSE IF x.v < 710 THEN Big(FALSE)
            ELSE NonFinite
      [] x.k = "f64" -> NonFinite
      [] x.k = "big" -> IF x.neg THEN IntV(0) ELSE NonFinite
      [] OTHER -> Double

\* ln: NaN below 0, -inf at 0, 0 at 1, a fraction at every other integer up to
\* IntLimit
ln_f64(x) ==
    CASE x.k = "int" ->
            IF x.v <= 0 THEN NonFinite ELSE IF x.v = 1 THEN IntV(0) ELSE Frac
      [] x.k = "big" -> IF x.neg THEN NonFinite ELSE Double
      [] x.k = "nonfinite" -> NonFinite
      [] OTHER -> Double

eval_unary(op, x) ==
    CASE op = "Negative" -> neg_f64(x)
      [] op = "Sin" -> trig(x, 0)
      [] op = "Cos" -> trig(x, 1)
      [] op = "Tan" -> trig(x, 0)
      [] op = "Exp" -> exp_f64(x)
      [] op = "Log" -> ln_f64(x)

\* e1 is evaluated before e2; a panic ends the evaluation
RECURSIVE eval(_, _)
eval(e, checks) ==
    CASE e.kind = "BinaryOp" ->
            LET v1 == eval(e.e1, checks)
                v2 == eval(e.e2, checks)
            IN  IF v1.status # "ok" THEN v1
                ELSE IF v2.status # "ok" THEN v2
                ELSE eval_binary(e.op, v1, v2)
      [] e.kind = "UnaryOp" ->
            LET v == eval(e.e, checks)
            IN  IF e.op = "Factorial" THEN eval_factorial(v, checks)
                ELSE IF v.status # "ok" THEN v
                ELSE eval_unary(e.op, v)
      [] e.kind = "Number" -> Tracked(e.n)
      [] e.kind = "Eof" -> Panic("Should not eval Eof expr!")

(***************************************************************************)
(* Text.  A string is the sequence of its characters; the box-drawing      *)
(* characters are named by their code points.                              *)
(***************************************************************************)
DigitChar(d) ==
    CASE d = 0 -> "0" [] d = 1 -> "1" [] d = 2 -> "2" [] d = 3 -> "3" [] d = 4 -> "4"
      [] d = 5 -> "5" [] d = 6 -> "6" [] d = 7 -> "7" [] d = 8 -> "8" [] d = 9 -> "9"

\* f64::to_string of a non-negative integer-valued double: its decimal digits
RECURSIVE to_string(_)
to_string(n) ==
    IF n < 10 THEN <<DigitChar(n)>> ELSE to_string(n \div 10) \o <<DigitChar(n % 10)>>

\* Display for BinOp
BinOpDisplay(op) ==
    CASE op = "Plus" -> <<"+">>
      [] op = "Minus" -> <<"-">>
      [] op = "Multiply" -> <<"*">>
      [] op = "Divide" -> <<"/">>
      [] op = "Power" -> <<"^">>

\* Display for UnOp
UnOpDisplay(op) ==
    CASE op = "Negative" -> <<"-">>
      [] op = "Sin" -> <<"s", "i", "n">>
      [] op = "Cos" -> <<"c", "o", "s">>
      [] op = "Tan" -> <<"t", "a", "n">>
      [] op = "Exp" -> <<"e", "x", "p">>
      [] op = "Log" -> <<"l", "o", "g">>
      [] op = "Factorial" -> <<"!">>

(***************************************************************************)
(* Expr::print_hierarchy(prefix, is_left): the lines it prints, in order.  *)
(***************************************************************************)
\* a version of second_part that ignores is_left
second_part_always_last(is_left) == <<"U+2514", "U+2500", "U+2500", " ">>

second_part(is_left) ==
    IF is_left
    THEN <<"U+251C", "U+2500", "U+2500", " ">>
    ELSE <<"U+2514", "U+2500", "U+2500", " ">>

new_prefix(prefix, is_left) ==
    prefix \o (IF is_left THEN <<"U+2502", " ", " ", " ">> ELSE <<" ", " ", " ", " ">>)

RECURSIVE print_hierarchy(_, _, _)
print_hierarchy(e, prefix, is_left) ==
    CASE e.kind = "BinaryOp" ->
            <<prefix \o second_part(is_left) \o BinOpDisplay(e.op)>>
                \o print_hierarchy(e.e1, new_prefix(prefix, is_left), TRUE)
                \o print_hierarchy(e.e2, new_prefix(prefix, is_left), FALSE)
      [] e.kind = "UnaryOp" ->
            <<prefix \o second_part(is_left) \o UnOpDisplay(e.op)>>
                \o print_hierarchy(e.e, new_prefix(prefix, is_left), FALSE)
      [] e.kind = "Number" -> <<prefix \o second_part(is_left) \o to_string(e.n)>>
      [] e.kind = "Eof" -> <<>>

\* Ast::print_hierarchy
ast_print_hierarchy(e) == print_hierarchy(e, <<>>, FALSE)

(***************************************************************************)
(* Layout metrics.                                                         *)
(***************************************************************************)
RECURSIVE get_width(_)
get_width(e) ==
    CASE e.kind = "BinaryOp" -> get_width(e.e1) + get_width(e.e2) + 3
      [] e.kind = "UnaryOp" -> get_width(e.e)
      [] e.kind = "Number" -> 1
      [] e.kind = "Eof" -> 0

Max(a, b) == IF a >= b THEN a ELSE b

RECURSIVE get_max_len(_)
get_max_len(e) ==
    CASE e.kind = "BinaryOp" -> Max(get_max_len(e.e1), get_max_len(e.e2))
      [] e.kind = "UnaryOp" -> get_max_len(e.e)
      [] e.kind = "Number" -> Max(Len(to_string(e.n)), 3)
      [] e.kind = "Eof" -> 0

(***************************************************************************)
(* The grid view, Display for Ast.                                         *)
(***************************************************************************)
RECURSIVE repeat(_, _)
repeat(c, n) == IF n <= 0 THEN <<>> ELSE <<c>> \o repeat(c, n - 1)

pad_center(s, total_width, align) ==
    IF Len(s) >= total_width
    THEN s
    ELSE LET diff == total_width - Len(s)
         IN  IF diff % 2 = 0
             THEN repeat(" ", diff \div 2) \o s \o repeat(" ", diff \div 2)
             ELSE LET short_padding == repeat(" ", diff \div 2)
                      long_padding == repeat(" ", (diff + 1) \div 2)
                  IN  IF align = "Left"
                      THEN short_padding \o s \o long_padding
                      ELSE long_padding \o s \o short_padding

PositionedExpr(expr, pos, align) == [expr |-> expr, pos |-> pos, align |-> align]

\* usize a - b: with overflow checks a panic when b > a; without them the
\* difference wraps to 2^64 + a - b, which is written here as the negative a - b
usize_sub(a, b, checks) ==
    IF a < b /\ checks
    THEN Panic("attempt to subtract with overflow")
    ELSE [status |-> "ok", v |-> a - b]

\* vec[pos] on a vector of `width` cells
InBounds(pos, width) == 0 <= pos /\ pos < width

\* format!("/{:cell_minus_2$}\\", " "): the blank padded to at least cell_minus_2
binary_edge(cell_minus_2) == <<"/">> \o repeat(" ", Max(cell_minus_2, 1)) \o <<"\\">>

\* The `while !current_row.is_empty()` loop from its i-th element on.  s holds
\* nodes_vec, edges_vec (cells 0..width-1, kept 1-based) and next_row.
RECURSIVE fmt_row(_, _, _, _)
fmt_row(row, i, s, c) ==
    IF i > Len(row)
    THEN s
    ELSE LET next == row[i]
             e == next.expr
         IN  IF e.kind = "Eof" THEN fmt_row(row, i + 1, s, c)
             ELSE IF ~InBounds(next.pos, c.width) THEN Panic("index out of bounds")
             ELSE
             CASE e.kind = "Number" ->
                    fmt_row(row, i + 1,
                            [s EXCEPT !.nodes_vec[next.pos + 1] =
                                          pad_center(to_string(e.n), c.cell_length, next.align)],
                            c)
               [] e.kind = "UnaryOp" ->
                    fmt_row(row, i + 1,
                            [s EXCEPT !.nodes_vec[next.pos + 1] =
                                          pad_center(UnOpDisplay(e.op), c.cell_length, next.align),
                                      !.edges_vec[next.pos + 1] =
                                          pad_center(<<"|">>, c.cell_length, next.align),
                                      !.next_row = @ \o <<PositionedExpr(e.e, next.pos, "Left")>>],
                            c)
               [] e.kind = "BinaryOp" ->
                    LET left_diff == IF e.e1.kind = "BinaryOp" THEN 2 ELSE 1
                        right_diff == IF e.e2.kind = "BinaryOp" THEN 2 ELSE 1
                        left == usize_sub(next.pos, left_diff, c.checks)
                    IN  IF c.cell_minus_2 < 0
                        THEN Panic("memory exhausted")   \* an edge cell 2^64 - 1 wide
                        ELSE IF left.status # "ok"
                        THEN left
                        ELSE fmt_row(row, i + 1,
                                [s EXCEPT !.nodes_vec[next.pos + 1] =
                                              pad_center(BinOpDisplay(e.op), c.cell_length, next.align),
                                          !.edges_vec[next.pos + 1] = binary_edge(c.cell_minus_2),
                                          !.next_row = @ \o
                                              <<PositionedExpr(e.e1, left.v, "Left"),
                                                PositionedExpr(e.e2, next.pos + right_diff, "Right")>>],
                                c)

RECURSIVE join(_)
join(v) == IF v = <<>> THEN <<>> ELSE Head(v) \o join(Tail(v))

Odd(n) == IF n % 2 = 0 THEN n + 1 ELSE n

\* fmt up to the first `loop` iteration
fmt_begin(e, checks) ==
    LET width == Odd(get_width(e))
        cell_length == Odd(get_max_len(e))
        cell_minus_2 == usize_sub(cell_length, 2, checks)
    IN  IF cell_minus_2.status # "ok"
        THEN cell_minus_2
        ELSE [status |-> "running",
              c |-> [width |-> width, cell_length |-> cell_length,
                     cell_minus_2 |-> cell_minus_2.v, checks |-> checks],
              current_row |-> <<PositionedExpr(e, (width + 1) \div 2, "Left")>>,
              f |-> <<>>]

\* one iteration of the `loop`
fmt_level(st) ==
    LET blank == [i \in 1..st.c.width |-> repeat(" ", st.c.cell_length)]
        s == fmt_row(st.current_row, 1,
                     [status |-> "ok", nodes_vec |-> blank, edges_vec |-> blank,
                      next_row |-> <<>>],
                     st.c)
        row_nodes == join(s.nodes_vec)
        row_edges == join(s.edges_vec)
        written == IF row_nodes # <<>> THEN st.f \o <<row_nodes, row_edges>> ELSE st.f
    IN  IF s.status # "ok"
        THEN s
        ELSE IF s.next_row # <<>>
        THEN [st EXCEPT !.current_row = s.next_row, !.f = written]
        ELSE [st EXCEPT !.status = "done", !.current_row = <<>>, !.f = written]

(***************************************************************************)
(* Input families: the token streams the behaviours start from.            *)
(***************************************************************************)
InfixNames == {"Plus", "Minus", "Multiply", "Divide", "Power"}
PrefixNames == {"Minus", "Sin", "Cos", "Tan", "Exp", "Log"}
InfixToks == {Tok(name) : name \in InfixNames}
PrefixToks == {Tok(name) : name \in PrefixNames}
Nums == {NumberTok(n) : n \in 0..MaxNum}

Alphabet == {Tok(name) : name \in TokenNames} \cup Nums \cup {LexErr}

\* every stream of at most MaxLen items
TokenSeqs == UNION {[1..n -> Alphabet] : n \in 0..MaxLen}

\* 1 op 2 op ... op k+1 for at most MaxOps infix operators
InfixChain(ops) ==
    [i \in 1..(2 * Len(ops) + 1) |->
        IF i % 2 = 1 THEN NumberTok((i + 1) \div 2) ELSE Tok(ops[i \div 2])]

InfixChains == {InfixChain(ops) : ops \in UNION {[1..k -> InfixNames] : k \in 0..MaxOps}}

\* the unary operators next to an infix operator
UnaryForms ==
    {<<p, a, o, b>> : p \in PrefixToks, a \in Nums, o \in InfixToks, b \in Nums}
        \cup {<<p, a, Tok("Factorial")>> : p \in PrefixToks, a \in Nums}
        \cup {<<a, Tok("Factorial"), o, b>> : a \in Nums, o \in InfixToks, b \in Nums}
        \cup {<<a, o, b, Tok("Factorial")>> : a \in Nums, o \in InfixToks, b \in Nums}
        \cup {<<a, o, p, b>> : a \in Nums, o \in InfixToks, p \in PrefixToks, b \in Nums}

\* a complete expression, then a token no loop of the parser takes, then a rest
NonOperatorToks == (Alphabet \ InfixToks) \ {Tok("Factorial"), LexErr}

TrailingForms ==
    {c \o <<x>> \o r : c \in {InfixChain(ops) : ops \in [1..1 -> InfixNames]},
                       x \in NonOperatorToks,
                       r \in {<<>>} \cup {<<y>> : y \in Alphabet}}

\* n ! for the literals 0..MaxFactN
FactorialInputs == {<<NumberTok(n), Tok("Factorial")>> : n \in 0..MaxFactN}

\* "-2 + 4 * -(5^3 + 7 * 3!)"  (ast.rs test_calc2)
TestCalc2 ==
    <<Tok("Minus"), NumberTok(2), Tok("Plus"), NumberTok(4), Tok("Multiply"), Tok("Minus"),
      Tok("LParens"), NumberTok(5), Tok("Power"), NumberTok(3), Tok("Plus"), NumberTok(7),
      Tok("Multiply"), NumberTok(3), Tok("Factorial"), Tok("RParens")>>

\* "sin(3--1)"  (parse.rs parse_expr1)
ParseExpr1 ==
    <<Tok("Sin"), Tok("LParens"), NumberTok(3), Tok("Minus"), Tok("Minus"), NumberTok(1),
      Tok("RParens")>>

\* "tan(-4--4) / ln(4)"  (ast.rs test_calc4)
TestCalc4 ==
    <<Tok("Tan"), Tok("LParens"), Tok("Minus"), NumberTok(4), Tok("Minus"), Tok("Minus"),
      NumberTok(4), Tok("RParens"), Tok("Divide"), Tok("Log"), Tok("LParens"), NumberTok(4),
      Tok("RParens")>>

\* "5^ln(3/4* cos(9- -1))"  (lex.rs parse_line)
ParseLine ==
    <<NumberTok(5), Tok("Power"), Tok("Log"), Tok("LParens"), NumberTok(3), Tok("Divide"),
      NumberTok(4), Tok("Multiply"), Tok("Cos"), Tok("LParens"), NumberTok(9), Tok("Minus"),
      Tok("Minus"), NumberTok(1), Tok("RParens"), Tok("RParens")>>

\* "(a + b)" for two streams a and b
Sum(a, b) == <<Tok("LParens")>> \o a \o <<Tok("Plus")>> \o b \o <<Tok("RParens")>>

\* "((1+2)+(3+4))*((5+6)+(7+8))": a balanced tree of depth 3
Balanced3 ==
    Sum(Sum(<<NumberTok(1)>>, <<NumberTok(2)>>), Sum(<<NumberTok(3)>>, <<NumberTok(4)>>))
        \o <<Tok("Multiply")>>
        \o Sum(Sum(<<NumberTok(5)>>, <<NumberTok(6)>>), Sum(<<NumberTok(7)>>, <<NumberTok(8)>>))

Scenarios == {TestCalc2, ParseExpr1, TestCalc4, ParseLine, Balanced3}

Inputs == TokenSeqs \cup InfixChains \cup UnaryForms \cup TrailingForms
              \cup FactorialInputs \cup Scenarios

\* Args: --ast-view requires --ast-mode and defaults to hierarchy
ArgsSet ==
    {[ast_mode |-> FALSE, ast_view |-> "Hierarchy"],
     [ast_mode |-> TRUE, ast_view |-> "Hierarchy"],
     [ast_mode |-> TRUE, ast_view |-> "Tree"]}

\* the lines that end the program
ExitWords == {"exit", "quit", "q"}

\* A line of stdin: one of the words that end the program (never lexed), or any
\* other line, given by the items the lexer yields for it.
Lines ==
    {[word |-> w, items |-> <<>>] : w \in ExitWords}
        \cup {[word |-> "", items |-> ts] : ts \in Inputs}
NoLine == [word |-> "", items |-> <<>>]

\* Token::lexer(&l), the stream string_to_ast parses
tokens == stdin_line.items

\* main before the first line is read
Init ==
    /\ args \in ArgsSet
    /\ overflow_checks \in BOOLEAN
    /\ pc = "prompt"
    /\ stdin_line = NoLine
    /\ ast = [status |-> "none"]
    /\ value = [status |-> "none"]
    /\ out = <<>>
    /\ fmt = [status |-> "none"]

\* the loop takes the next line; exit, quit and q end the process.  (A line that
\* cannot be read only prints a message: a step that changes nothing here.)
ReadLine ==
    /\ pc = "prompt"
    /\ \E read \in Lines :
          /\ stdin_line' = read
          /\ pc' = IF read.word \in ExitWords THEN "exited" ELSE "lexed"
    /\ UNCHANGED <<args, overflow_checks, ast, value, out, fmt>>

\* stdin is at its end: the loop and main return
StdinClosed ==
    /\ pc = "prompt"
    /\ pc' = "done"
    /\ UNCHANGED <<args, overflow_checks, stdin_line, ast, value, out, fmt>>

StringToAst ==
    /\ pc = "lexed"
    /\ ast' = string_to_ast(tokens)
    /\ pc' = IF ast'.status = "ok" THEN "parsed" ELSE "panicked"
    /\ UNCHANGED <<args, overflow_checks, stdin_line, value, out, fmt>>

\* if args.ast_mode, AstView::Hierarchy
PrintHierarchy ==
    /\ pc = "parsed"
    /\ args.ast_mode /\ args.ast_view = "Hierarchy"
    /\ out' = ast_print_hierarchy(ast.expr)
    /\ pc' = "printed"
    /\ UNCHANGED <<args, overflow_checks, stdin_line, ast, value, fmt>>

\* if args.ast_mode, AstView::Tree
FmtBegin ==
    /\ pc = "parsed"
    /\ args.ast_mode /\ args.ast_view = "Tree"
    /\ fmt' = fmt_begin(ast.expr, overflow_checks)
    /\ pc' = IF fmt'.status = "running" THEN "fmt" ELSE "panicked"
    /\ UNCHANGED <<args, overflow_checks, stdin_line, ast, value, out>>

FmtLevel ==
    /\ pc = "fmt"
    /\ fmt' = fmt_level(fmt)
    /\ pc' = CASE fmt'.status = "running" -> "fmt"
              [] fmt'.status = "done" -> "formatted"
              [] OTHER -> "panicked"
    /\ UNCHANGED <<args, overflow_checks, stdin_line, ast, value, out>>

\* ast.eval(), after the printing when there is any.  The one evaluation the step
\* is not taken on is the factorial of a double of which nothing is known.
Eval ==
    /\ \/ pc = "parsed" /\ ~args.ast_mode
       \/ pc \in {"printed", "formatted"}
    /\ eval(ast.expr, overflow_checks).status # "unmodelled"
    /\ value' = eval(ast.expr, overflow_checks)
    /\ pc' = IF value'.status = "ok" THEN "evaluated" ELSE "panicked"
    /\ UNCHANGED <<args, overflow_checks, stdin_line, ast, out, fmt>>

\* the end of an iteration: the line and its tree are dropped, the prompt is
\* written, the loop goes on to the next line
Prompt ==
    /\ pc = "evaluated"
    /\ pc' = "prompt"
    /\ stdin_line' = NoLine
    /\ ast' = [status |-> "none"]
    /\ value' = [status |-> "none"]
    /\ out' = <<>>
    /\ fmt' = [status |-> "none"]
    /\ UNCHANGED <<args, overflow_checks>>

Next ==
    \/ ReadLine
    \/ StdinClosed
    \/ StringToAst
    \/ PrintHierarchy
    \/ FmtBegin
    \/ FmtLevel
    \/ Eval
    \/ Prompt

Spec == Init /\ [][Next]_vars

(***************************************************************************)
(* Properties.                                                             *)
(***************************************************************************)
RECURSIVE HasEof(_)
HasEof(e) ==
    CASE e.kind = "BinaryOp" -> HasEof(e.e1) \/ HasEof(e.e2)
      [] e.kind = "UnaryOp" -> HasEof(e.e)
      [] e.kind = "Number" -> FALSE
      [] e.kind = "Eof" -> TRUE

\* numbers alternating with infix operators, no parentheses
IsInfixChain(ts) ==
    /\ Len(ts) % 2 = 1
    /\ \A i \in 1..Len(ts) :
          IF i % 2 = 1 THEN ts[i].t = "Number" ELSE ts[i].t \in InfixNames

\* The reference grouping of the chain ts[lo..hi]: split at the last + or -, else
\* at the last * or /, else at the first ^.
RECURSIVE RefGroup(_, _, _)
RefGroup(ts, lo, hi) ==
    LET at(names) == {i \in lo..hi : ts[i].t \in names}
        last(S) == CHOOSE i \in S : \A j \in S : j <= i
        first(S) == CHOOSE i \in S : \A j \in S : i <= j
        k == IF at({"Plus", "Minus"}) # {} THEN last(at({"Plus", "Minus"}))
             ELSE IF at({"Multiply", "Divide"}) # {} THEN last(at({"Multiply", "Divide"}))
             ELSE first(at({"Power"}))
    IN  IF lo = hi
        THEN Number(ts[lo].n)
        ELSE BinaryOp(ts[k].t, RefGroup(ts, lo, k - 1), RefGroup(ts, k + 1, hi))

\* C1: every chain of numbers and infix operators is parsed whole, into the tree of
\* the reference grouping: ^ binds tighter than * and /, which bind tighter than + and -;
\* ^ groups to the right, the others to the left.
C1_InfixGrouping ==
    (ast.status # "none" /\ IsInfixChain(tokens)) =>
        /\ ast.status = "ok"
        /\ ast.pos = Len(tokens) + 1
        /\ ast.expr = RefGroup(tokens, 1, Len(tokens))

\* The tree the claim gives for each of its five forms of tokens.
UnaryExpected(ts) ==
    CASE Len(ts) = 4 /\ ts[1] \in PrefixToks /\ ts[2].t = "Number" /\ ts[3] \in InfixToks
              /\ ts[4].t = "Number" ->
            BinaryOp(ts[3].t, UnaryOp(UnOpFrom(ts[1]), Number(ts[2].n)), Number(ts[4].n))
      [] Len(ts) = 3 /\ ts[1] \in PrefixToks /\ ts[2].t = "Number" /\ ts[3].t = "Factorial" ->
            UnaryOp(UnOpFrom(ts[1]), UnaryOp("Factorial", Number(ts[2].n)))
      [] Len(ts) = 4 /\ ts[1].t = "Number" /\ ts[2].t = "Factorial" /\ ts[3].t = "Power"
              /\ ts[4].t = "Number" ->
            BinaryOp("Power", UnaryOp("Factorial", Number(ts[1].n)), Number(ts[4].n))
      [] Len(ts) = 4 /\ ts[1].t = "Number" /\ ts[2].t = "Multiply" /\ ts[3].t = "Number"
              /\ ts[4].t = "Factorial" ->
            BinaryOp("Multiply", Number(ts[1].n), UnaryOp("Factorial", Number(ts[3].n)))
      [] Len(ts) = 4 /\ ts[1].t = "Number" /\ ts[2] \in InfixToks /\ ts[3].t = "Minus"
              /\ ts[4].t = "Number" ->
            BinaryOp(ts[2].t, Number(ts[1].n), UnaryOp("Negative", Number(ts[4].n)))
      [] OTHER -> Eof

\* C2: infix operators bind at 5 or less on their left, prefix operators at 8, the
\* factorial at 9; so 'p a o b' is (p a) o b, 'p a !' is p (a !), 'a ! ^ b' is (a !) ^ b,
\* 'a * b !' is a * (b !), and 'a o - b' is a o (Negative b).
C2_UnaryBinding ==
    (ast.status # "none" /\ UnaryExpected(tokens) # Eof) =>
        /\ \A o \in InfixToks : infix_prec(o).some /\ infix_prec(o).l <= 5
        /\ \A q \in PrefixToks : ~prefix_prec(q).panic /\ prefix_prec(q).r = 8
        /\ postfix_prec(Tok("Factorial")).l = 9
        /\ ast.status = "ok"
        /\ ast.pos = Len(tokens) + 1
        /\ ast.expr = UnaryExpected(tokens)

\* '- 1 ^ 0' has been parsed as (Negative 1) ^ 0
C2_Witness ==
    /\ pc = "parsed"
    /\ tokens = <<Tok("Minus"), NumberTok(1), Tok("Power"), NumberTok(0)>>
    /\ ast.expr = BinaryOp("Power", UnaryOp("Negative", Number(1)), Number(0))

\* C3: the parse returns a tree or an error value, and a token in operand position
\* that starts no operand gives the error UnexpectedToken (here: the first token).
C3_BadOperandIsError ==
    (ast.status # "none" /\ tokens # <<>>
        /\ tokens[1].t \in {"Plus", "Multiply", "Divide", "Power", "Factorial", "RParens"}) =>
        ast.status = "UnexpectedToken"

\* the sub-expression after a leading ( is parsed and no ) follows it
ParenNotClosed(ts) ==
    /\ ts # <<>>
    /\ ts[1] = Tok("LParens")
    /\ LET inner == expr_prec(ts, 2, 0)
       IN  /\ inner.status = "ok"
           /\ inner.pos > Len(ts) \/ ts[inner.pos] # Tok("RParens")

\* C4: a ( whose sub-expression is not followed by ) gives the error UnmatchedParen.
C4_UnmatchedParenIsError ==
    (ast.status # "none" /\ ParenNotClosed(tokens)) => ast.status = "UnmatchedParen"

\* C5: the tree parsed from a non-empty stream holds no Eof node.
C5_NoEofInTree ==
    (ast.status = "ok" /\ tokens # <<>>) => ~HasEof(ast.expr)

\* C8: when the tokens before position p are a complete expression and the token at p
\* is one no loop of the parser takes (not Factorial, not infix), the parse of the
\* whole stream succeeds with the tree of the tokens before p and stops at p.
C8_TrailingIgnored ==
    ast.status # "none" =>
        \A p \in 2..Len(tokens) :
            LET before == string_to_ast(SubSeq(tokens, 1, p - 1))
            IN  (/\ tokens[p] \in NonOperatorToks
                 /\ before.status = "ok"
                 /\ before.pos = p
                 /\ ~HasEof(before.expr))
                    => ast = before

\* '1 + 2 ) 0' has been parsed as 1 + 2, stopping at the )
C8_Witness ==
    /\ pc = "parsed"
    /\ tokens = <<NumberTok(1), Tok("Plus"), NumberTok(2), Tok("RParens"), NumberTok(0)>>
    /\ ast = Parsed(BinaryOp("Plus", Number(1), Number(2)), 4)

\* n! as a number of any size: base 2^16 digits, least significant first
RECURSIVE BigMul(_, _, _)
BigMul(digits, k, carry) ==
    IF digits = <<>>
    THEN IF carry = 0 THEN <<>> ELSE <<carry % Limb>> \o BigMul(<<>>, k, carry \div Limb)
    ELSE LET p == Head(digits) * k + carry
         IN  <<p % Limb>> \o BigMul(Tail(digits), k, p \div Limb)

RECURSIVE RefFactorial(_)
RefFactorial(n) == IF n = 0 THEN <<1>> ELSE BigMul(RefFactorial(n - 1), n, 0)

\* the double whose value is digits mod 2^64 (exactly)
Mod64AsDouble(digits) ==
    f64_value([i \in 1..5 |-> IF i <= 4 /\ i <= Len(digits) THEN digits[i] ELSE 0])

EvalReturned == value.status # "none"

\* C6 as stated: the factorial of every literal n is n! mod 2^64 as a double, and the
\* evaluation never aborts.
C6_FactorialWrapsSilently ==
    (EvalReturned /\ tokens \in FactorialInputs) =>
        value = Mod64AsDouble(RefFactorial(tokens[1].n))

\* 21 ! has been evaluated in the build with overflow checks: the multiplication
\* panicked and the process aborted
C6_Witness ==
    /\ pc = "panicked"
    /\ tokens = <<NumberTok(21), Tok("Factorial")>>
    /\ overflow_checks
    /\ ast.status = "ok"
    /\ value = Panic("attempt to multiply with overflow")

\* the non-Eof nodes of e in pre-order, each with its depth and whether it is the
\* left child of a binary node
RECURSIVE PreOrder(_, _, _)
PreOrder(e, d, left) ==
    CASE e.kind = "BinaryOp" ->
            <<[depth |-> d, left |-> left, label |-> BinOpDisplay(e.op)]>>
                \o PreOrder(e.e1, d + 1, TRUE) \o PreOrder(e.e2, d + 1, FALSE)
      [] e.kind = "UnaryOp" ->
            <<[depth |-> d, left |-> left, label |-> UnOpDisplay(e.op)]>>
                \o PreOrder(e.e, d + 1, FALSE)
      [] e.kind = "Number" -> <<[depth |-> d, left |-> left, label |-> to_string(e.n)]>>
      [] e.kind = "Eof" -> <<>>

\* the line of a node: 4 * depth prefix characters, the connector, the label
LineIsFor(line, node) ==
    /\ Len(line) = 4 * node.depth + 4 + Len(node.label)
    /\ \A i \in 1..(4 * node.depth) : line[i] \in {" ", "U+2502"}
    /\ SubSeq(line, 4 * node.depth + 1, 4 * node.depth + 4) =
          (IF node.left THEN <<"U+251C", "U+2500", "U+2500", " ">>
                        ELSE <<"U+2514", "U+2500", "U+2500", " ">>)
    /\ SubSeq(line, 4 * node.depth + 5, Len(line)) = node.label

\* Reading a tree back from the printed lines alone.
ConnectorAt(line) == CHOOSE i \in 1..Len(line) : line[i] \in {"U+251C", "U+2514"}
DepthOf(line) == (ConnectorAt(line) - 1) \div 4
IsLeftLine(line) == line[ConnectorAt(line)] = "U+251C"
LabelOf(line) == SubSeq(line, ConnectorAt(line) + 4, Len(line))

DigitValue(c) == CHOOSE d \in 0..9 : DigitChar(d) = c
IsNumberLabel(label) == \E d \in 0..9 : DigitChar(d) = label[1]
RECURSIVE NumberOfLabel(_)
NumberOfLabel(label) ==
    IF label = <<>> THEN 0
    ELSE 10 * NumberOfLabel(SubSeq(label, 1, Len(label) - 1)) + DigitValue(label[Len(label)])

BinOpOfLabel(label) == CHOOSE op \in InfixNames : BinOpDisplay(op) = label
UnOpOfLabel(label) ==
    CHOOSE op \in {"Negative", "Sin", "Cos", "Tan", "Exp", "Log", "Factorial"} :
        UnOpDisplay(op) = label

\* the subtree whose root is line i, and the index of the first line after it
RECURSIVE ReadAt(_, _)
ReadAt(lines, i) ==
    LET d == DepthOf(lines[i])
        label == LabelOf(lines[i])
        child(j) == j <= Len(lines) /\ DepthOf(lines[j]) = d + 1
    IN  IF IsNumberLabel(label)
        THEN [expr |-> Number(NumberOfLabel(label)), next |-> i + 1]
        ELSE IF ~child(i + 1)
        THEN [expr |-> UnaryOp(UnOpOfLabel(label), Eof), next |-> i + 1]
        ELSE LET first == ReadAt(lines, i + 1)
             IN  IF ~IsLeftLine(lines[i + 1])
                 THEN [expr |-> UnaryOp(UnOpOfLabel(label), first.expr), next |-> first.next]
                 ELSE IF ~child(first.next)
                 THEN [expr |-> BinaryOp(BinOpOfLabel(label), first.expr, Eof),
                       next |-> first.next]
                 ELSE LET second == ReadAt(lines, first.next)
                      IN  [expr |-> BinaryOp(BinOpOfLabel(label), first.expr, second.expr),
                           next |-> second.next]

ReadHierarchy(lines) == IF lines = <<>> THEN Eof ELSE ReadAt(lines, 1).expr

\* print_hierarchy has returned for the tree of this line
HierarchyPrinted ==
    /\ ast.status = "ok"
    /\ args.ast_mode /\ args.ast_view = "Hierarchy"
    /\ pc # "parsed"

\* C7: print_hierarchy writes one line per non-Eof node in pre-order, a node of depth d
\* as 4*d prefix characters, then the connector (U+251C for the left child of a binary
\* node, U+2514 otherwise), then its label; and the lines determine the tree: reading
\* them back gives the tree that was printed.
C7_HierarchyDeterminesTree ==
    HierarchyPrinted =>
        LET nodes == PreOrder(ast.expr, 0, FALSE)
        IN  /\ Len(out) = Len(nodes)
            /\ \A i \in 1..Len(nodes) : LineIsFor(out[i], nodes[i])
            /\ ReadHierarchy(out) = ast.expr

\* sin(3--1) has been printed: five lines, the third for the left child 3 at depth 2
C7_Witness ==
    /\ pc = "printed"
    /\ tokens = ParseExpr1
    /\ Len(out) = 5
    /\ out[3] = <<" ", " ", " ", " ", " ", " ", " ", " ", "U+251C", "U+2500", "U+2500", " ", "3">>

\* C9: every node the grid layout takes from a row has a column inside the row.
C9_GridInBounds ==
    pc = "fmt" =>
        \A i \in 1..Len(fmt.current_row) :
            fmt.current_row[i].expr.kind # "Eof" =>
                InBounds(fmt.current_row[i].pos, fmt.c.width)

\* C10: no two nodes of one level of the grid layout have the same column.
C10_NoColumnShared ==
    pc = "fmt" =>
        \A i, j \in 1..Len(fmt.current_row) :
            (i < j /\ fmt.current_row[i].expr.kind # "Eof"
                   /\ fmt.current_row[j].expr.kind # "Eof")
                => fmt.current_row[i].pos # fmt.current_row[j].pos

=============================================================================
